---- MODULE Spec2Model ----
(***************************************************************************)
(* Model of dmfed/ydfs: an io/fs style file system over the Yandex Disk    *)
(* REST API.  The model follows src/fs.go (type ydfs: path scope, single   *)
(* node operations, MkdirAll, RemoveAll) and src/file.go (type ydfile:     *)
(* the read cursor and the directory cursor).  The remote store that       *)
(* src/api.go talks to is modelled as a tree of nodes.                     *)
(*                                                                         *)
(* A Go string is a sequence of characters, one TLA+ string per character; *)
(* the five characters of the remote root token are kept together as the   *)
(* single element "disk:" (no length is ever taken of a string holding it).*)
(***************************************************************************)
EXTENDS Integers, Sequences, FiniteSets, TLC

VARIABLES
    tree,      \* the remote store: canonical path (sequence of segments) -> node
    listDesc,  \* the order in which the remote lists children (not under the program's control)
    views,     \* the ydfs values created so far (a ydfs never changes: a set of values)
    files,     \* the ydfile values created so far by Open
    hist,      \* per ydfile, what its caller has seen: whether the handle is open and its
               \* node untouched since Open (intact), the bytes Read has delivered while
               \* that was so (got), and whether Close was called on it (closed)
    last,      \* the call that was made last: its arguments, results and remote calls
    removing   \* the Remove calls that have fetched their target and not yet asked for
               \* the delete: a sequence with one record per call in flight

vars == <<tree, listDesc, views, files, hist, last, removing>>

-----------------------------------------------------------------------------
(* Bounds of the model *)

MaxFiles == 1     \* ydfile values (Open)
MaxLen == 2       \* bytes in a payload given to WriteFile
MaxBuf == 3       \* length of a buffer given to Read
MaxN == 2         \* largest count given to ReadDir
MaxRemoving == 1  \* Remove calls in flight between their fetch and their delete
MaxHandles == 2   \* ydfile values held at once where handles are compared

-----------------------------------------------------------------------------
(* Strings: the library functions fs.go calls, computed as Go computes them *)

RECURSIVE SplitFrom(_, _, _)
SplitFrom(s, i, cur) ==
    IF i > Len(s) THEN <<cur>>
    ELSE IF s[i] = "/" THEN <<cur>> \o SplitFrom(s, i + 1, <<>>)
    ELSE SplitFrom(s, i + 1, Append(cur, s[i]))

\* strings.Split(s, "/")
Split(s) == SplitFrom(s, 1, <<>>)

RECURSIVE TrimLeft(_)
TrimLeft(s) == IF s # <<>> /\ Head(s) = "/" THEN TrimLeft(Tail(s)) ELSE s

RECURSIVE TrimRight(_)
TrimRight(s) ==
    IF s # <<>> /\ s[Len(s)] = "/" THEN TrimRight(SubSeq(s, 1, Len(s) - 1)) ELSE s

\* strings.Trim(s, "/")
Trim(s) == TrimRight(TrimLeft(s))

RECURSIVE JoinSegs(_)
JoinSegs(segs) ==
    IF segs = <<>> THEN <<>>
    ELSE IF Len(segs) = 1 THEN segs[1]
    ELSE segs[1] \o <<"/">> \o JoinSegs(Tail(segs))

DotDot == <<".", ".">>

RECURSIVE CleanSegs(_, _, _)
CleanSegs(segs, rooted, stack) ==
    IF segs = <<>> THEN stack
    ELSE LET e == Head(segs)
             rest == Tail(segs)
         IN  IF e = <<>> \/ e = <<".">> THEN CleanSegs(rest, rooted, stack)
             ELSE IF e = DotDot THEN
                 IF stack # <<>> /\ stack[Len(stack)] # DotDot
                 THEN CleanSegs(rest, rooted, SubSeq(stack, 1, Len(stack) - 1))
                 ELSE IF rooted THEN CleanSegs(rest, rooted, stack)
                 ELSE CleanSegs(rest, rooted, Append(stack, e))
             ELSE CleanSegs(rest, rooted, Append(stack, e))

\* path.Clean
Clean(s) ==
    IF s = <<>> THEN <<".">>
    ELSE LET rooted == Head(s) = "/"
             body == JoinSegs(CleanSegs(Split(s), rooted, <<>>))
         IN  IF rooted THEN <<"/">> \o body
             ELSE IF body = <<>> THEN <<".">> ELSE body

\* path.Join(a, b): empty elements are ignored, the rest is joined and cleaned
Join(a, b) ==
    IF a = <<>> /\ b = <<>> THEN <<>>
    ELSE IF a = <<>> THEN Clean(b)
    ELSE IF b = <<>> THEN Clean(a)
    ELSE Clean(a \o <<"/">> \o b)

RECURSIVE ReplaceDisk(_)
\* strings.Replace(s, "disk:", "", 1)
ReplaceDisk(s) ==
    IF s = <<>> THEN <<>>
    ELSE IF Head(s) = "disk:" THEN Tail(s)
    ELSE <<Head(s)>> \o ReplaceDisk(Tail(s))

IsPrefix(p, q) == Len(p) <= Len(q) /\ SubSeq(q, 1, Len(p)) = p

-----------------------------------------------------------------------------
(* The remote store behind the API client of api.go.  A node is addressed   *)
(* by its canonical path, the sequence of its segments; the root is <<>>.   *)
(* A node is busy while the remote holds it locked for an operation of its  *)
(* own: a request to delete or overwrite it is answered with an API error.  *)
(* A node is denied when the remote refuses to show it: a request for its   *)
(* metadata or its bytes is answered with an API error.                     *)

Root == <<>>

\* The node a "path" query parameter names: the root token and empty segments are dropped.
Canon(s) ==
    LET t == IF s # <<>> /\ Head(s) = "disk:" THEN Tail(s) ELSE s
    IN  SelectSeq(Split(t), LAMBDA e : e # <<>>)

Parent(k) == SubSeq(k, 1, Len(k) - 1)

Children(t, k) == {c \in DOMAIN t : Len(c) = Len(k) + 1 /\ Parent(c) = k}

Subtree(t, k) == {c \in DOMAIN t : IsPrefix(k, c)}

Alphabet == <<".", "/", "a", "b", "c", "disk", "disk:">>

Rank(c) == CHOOSE i \in 1..Len(Alphabet) : Alphabet[i] = c

RECURSIVE StrLess(_, _)
StrLess(s, t) ==
    IF t = <<>> THEN FALSE
    ELSE IF s = <<>> THEN TRUE
    ELSE IF Head(s) = Head(t) THEN StrLess(Tail(s), Tail(t))
    ELSE Rank(Head(s)) < Rank(Head(t))

RECURSIVE Listing(_, _)
\* The children of a directory in the order the remote lists them.
Listing(S, desc) ==
    IF S = {} THEN <<>>
    ELSE LET m == CHOOSE k \in S : \A j \in S \ {k} :
                      IF desc THEN StrLess(j[Len(j)], k[Len(k)])
                      ELSE StrLess(k[Len(k)], j[Len(j)])
         IN  <<m>> \o Listing(S \ {m}, desc)

\* type resource: the fields the file system reads
Resource(t, k, items) ==
    [Path |-> <<"disk:", "/">> \o JoinSegs(k),
     Name |-> IF k = Root THEN <<"disk">> ELSE k[Len(k)],
     Type |-> t[k].type,
     Size |-> Len(t[k].data),
     Items |-> items]

NoResource == [Path |-> <<>>, Name |-> <<>>, Type |-> "", Size |-> 0, Items |-> <<>>]

\* getResource(name, limit): limit 0 asks for no embedded resources, -1 for all of them
getResource(t, desc, name, embedded) ==
    LET k == Canon(name)
    IN  IF k \notin DOMAIN t THEN [err |-> "ErrNotFound", res |-> NoResource]
        ELSE IF t[k].denied THEN [err |-> "ErrAPI", res |-> NoResource]
        ELSE LET ch == IF embedded THEN Listing(Children(t, k), desc) ELSE <<>>
             IN  [err |-> "",
                  res |-> Resource(t, k, [i \in 1..Len(ch) |-> Resource(t, ch[i], <<>>)])]

getResourceMinTraffic(t, desc, name) == getResource(t, desc, name, FALSE)

getResourceWithEmbedded(t, desc, name) == getResource(t, desc, name, TRUE)

\* getFile(name): the bytes of a file
getFile(t, name) ==
    LET k == Canon(name)
    IN  IF k \notin DOMAIN t THEN [err |-> "ErrNotFound", data |-> <<>>]
        ELSE IF t[k].denied THEN [err |-> "ErrAPI", data |-> <<>>]
        ELSE IF t[k].type # "file" THEN [err |-> "ErrAPI", data |-> <<>>]
        ELSE [err |-> "", data |-> t[k].data]

\* putFile(name, overwrite, data)
putFile(t, name, overwrite, data) ==
    LET k == Canon(name)
    IN  IF k = Root THEN [err |-> "ErrAPI", tree |-> t]
        ELSE IF Parent(k) \notin DOMAIN t THEN [err |-> "ErrAPI", tree |-> t]
        ELSE IF t[Parent(k)].type # "dir" THEN [err |-> "ErrAPI", tree |-> t]
        ELSE IF k \in DOMAIN t /\ (t[k].type = "dir" \/ ~overwrite \/ t[k].busy)
             THEN [err |-> "ErrAPI", tree |-> t]
        ELSE [err |-> "",
              tree |-> [c \in DOMAIN t \cup {k} |->
                           IF c = k THEN [type |-> "file", data |-> data, busy |-> FALSE, denied |-> FALSE] ELSE t[c]]]

putFileTruncate(t, name, data) == putFile(t, name, TRUE, data)

\* mkdir(name): creates one directory; the parent must be there
mkdir(t, name) ==
    LET k == Canon(name)
    IN  IF k \in DOMAIN t THEN [err |-> "ErrAPI", tree |-> t]
        ELSE IF Parent(k) \notin DOMAIN t THEN [err |-> "ErrNotFound", tree |-> t]
        ELSE IF t[Parent(k)].type # "dir" THEN [err |-> "ErrAPI", tree |-> t]
        ELSE [err |-> "",
              tree |-> [c \in DOMAIN t \cup {k} |->
                           IF c = k THEN [type |-> "dir", data |-> <<>>, busy |-> FALSE, denied |-> FALSE] ELSE t[c]]]

\* delResource(name, permanently): the node and everything below it goes
delResource(t, name) ==
    LET k == Canon(name)
    IN  IF k \notin DOMAIN t THEN [err |-> "ErrNotFound", tree |-> t]
        ELSE IF k = Root THEN [err |-> "ErrAPI", tree |-> t]
        ELSE IF \E c \in Subtree(t, k) : t[c].busy THEN [err |-> "ErrAPI", tree |-> t]
        ELSE [err |-> "", tree |-> [c \in DOMAIN t \ Subtree(t, k) |-> t[c]]]

delResourcePermanently(t, name) == delResource(t, name)

\* One request sent to the remote: the client function and the path it was given.
Call(fn, name) == [fn |-> fn, path |-> name]

-----------------------------------------------------------------------------
(* Errors.  kind is "nil", "EOF" (io.EOF), "PathError" (an fs.PathError) or *)
(* "panic" (a run-time panic instead of a return); cause is the innermost   *)
(* error a PathError wraps.                                                 *)

NoErr == [kind |-> "nil", op |-> "", path |-> <<>>, cause |-> ""]

EOF == [kind |-> "EOF", op |-> "", path |-> <<>>, cause |-> "EOF"]

PathError(op, name, cause) == [kind |-> "PathError", op |-> op, path |-> name, cause |-> cause]

Panic == [kind |-> "panic", op |-> "", path |-> <<>>, cause |-> "slice bounds out of range"]

-----------------------------------------------------------------------------
(* type ydfile (file.go) *)

NilData == [nil |-> TRUE, bytes |-> <<>>]

\* newfile: a ydfile with only its path set
newfile(name) ==
    [path |-> name, name |-> <<>>, isdir |-> FALSE, size |-> 0,
     data |-> NilData, roffset |-> 0, rdoffset |-> 0]

\* normalizeResource
normalizeResource(r) ==
    LET p == ReplaceDisk(r.Path)
    IN  [r EXCEPT !.Path = p,
                  !.Name = IF p = <<"/">> /\ r.Name = <<"disk">> THEN <<"/">> ELSE r.Name]

\* ydfile.update: refresh the metadata from the remote
update(t, desc, file) ==
    LET r == getResourceMinTraffic(t, desc, file.path)
        res == normalizeResource(r.res)
    IN  IF r.err # "" THEN [err |-> r.err, file |-> file]
        ELSE [err |-> "",
              file |-> [file EXCEPT !.path = res.Path, !.name = res.Name,
                                    !.isdir = (res.Type = "dir"), !.size = res.Size]]

-----------------------------------------------------------------------------
(* type ydfs (fs.go): path scope *)

\* getFullPath that leaves the base path out
getFullPathUnscoped(y, name) == name

\* ydfs.getFullPath
getFullPath(y, name) == IF y.issub THEN Join(y.path, name) ELSE name

\* name[len(y.path):] panics when name is shorter than the base path
TrimPanics(y, name) == y.issub /\ Len(y.path) > Len(name)

\* ydfs.trimRootPath
trimRootPath(y, name) ==
    IF y.issub THEN SubSeq(name, Len(y.path) + 1, Len(name)) ELSE name

\* ydfs.open returns a *ydfile; nilptr says that the pointer is nil (then file is not
\* there to be used).
open(t, desc, y, name) ==
    LET full == getFullPath(y, name)
        u == update(t, desc, newfile(full))
        calls == <<Call("getResource", full)>>
    IN  IF u.err # "" THEN [err |-> PathError("open", name, u.err), file |-> newfile(full),
                            nilptr |-> TRUE, calls |-> calls]
        ELSE [err |-> NoErr, file |-> u.file, nilptr |-> FALSE, calls |-> calls]

\* A value of an interface type (fs.File, fs.FileInfo): the nil interface, or a
\* *ydfile in the interface, whose pointer may itself be nil.
NilInterface == [typed |-> FALSE, nilptr |-> TRUE]

Interface(nilptr) == [typed |-> TRUE, nilptr |-> nilptr]

\* v == nil in Go: only the interface without a type in it is equal to nil.
EqualsNil(v) == ~v.typed

\* What a FileInfo or DirEntry backed by a ydfile reports (Name, IsDir, Size).
Info(file) == [name |-> file.name, isdir |-> file.isdir, size |-> file.size]

NoInfo == [name |-> <<>>, isdir |-> FALSE, size |-> 0]

\* ydfs.Open: the *ydfile that open returns is returned as the fs.File
Open(t, desc, y, name) ==
    LET o == open(t, desc, y, name)
    IN  [err |-> o.err, file |-> o.file, calls |-> o.calls, ret |-> Interface(o.nilptr)]

\* ydfs.Stat: the ydfile that open returns is the FileInfo
Stat(t, desc, y, name) ==
    LET o == open(t, desc, y, name)
    IN  [tree |-> t, err |-> o.err, calls |-> o.calls, ret |-> Interface(o.nilptr),
         info |-> IF o.err.kind = "nil" THEN Info(o.file) ELSE NoInfo]

\* Sub that takes whatever is at the path for a directory
SubAnyKind(t, desc, y, dir) ==
    LET fullname == getFullPath(y, dir)
        r == getResourceMinTraffic(t, desc, fullname)
        calls == <<Call("getResource", fullname)>>
    IN  IF r.err # "" THEN [err |-> PathError("read", dir, r.err), calls |-> calls, fs |-> y]
        ELSE [err |-> NoErr, calls |-> calls,
              fs |-> [path |-> normalizeResource(r.res).Path, issub |-> TRUE]]

\* ydfs.Sub
Sub(t, desc, y, dir) ==
    LET fullname == getFullPath(y, dir)
        r == getResourceMinTraffic(t, desc, fullname)
        calls == <<Call("getResource", fullname)>>
    IN  IF r.err # "" THEN [err |-> PathError("read", dir, r.err), calls |-> calls, fs |-> y]
        ELSE IF r.res.Type # "dir"
             THEN [err |-> PathError("sub", dir, "not a directory"), calls |-> calls, fs |-> y]
        ELSE [err |-> NoErr, calls |-> calls,
              fs |-> [path |-> normalizeResource(r.res).Path, issub |-> TRUE]]

\* ydfs.ReadFile: the error names the base path of the view
ReadFile(t, y, name) ==
    LET fullname == getFullPath(y, name)
        g == getFile(t, fullname)
    IN  [calls |-> <<Call("getFile", fullname)>>,
         data |-> IF g.err # "" THEN <<>> ELSE g.data,
         err |-> IF g.err # "" THEN PathError("read", y.path, g.err) ELSE NoErr]

\* type ydinfo: what a DirEntry backed by a resource reports (Name is the path
\* without the root token, IsDir, Size)
ydinfo(res) == [name |-> ReplaceDisk(res.Path), isdir |-> (res.Type = "dir"), size |-> res.Size]

\* ReadDir of a view without the check of the kind (used to test C33).
ReadDirFSAnyKind(t, desc, y, name) ==
    LET fullname == getFullPath(y, name)
        r == getResourceWithEmbedded(t, desc, fullname)
        calls == <<Call("getResourceWithEmbedded", fullname)>>
    IN  IF r.err # ""
        THEN [entries |-> <<>>, calls |-> calls, err |-> PathError("open", name, r.err)]
        ELSE [entries |-> [i \in 1..Len(r.res.Items) |-> ydinfo(r.res.Items[i])],
              calls |-> calls, err |-> NoErr]

\* ydfs.ReadDir: one ydinfo per embedded item, in the order of the listing
ReadDirFS(t, desc, y, name) ==
    LET fullname == getFullPath(y, name)
        r == getResourceWithEmbedded(t, desc, fullname)
        calls == <<Call("getResourceWithEmbedded", fullname)>>
    IN  IF r.err # ""
        THEN [entries |-> <<>>, calls |-> calls, err |-> PathError("open", name, r.err)]
        ELSE IF r.res.Type # "dir"
        THEN [entries |-> <<>>, calls |-> calls,
              err |-> PathError("readdirent", name, "not a directory")]
        ELSE [entries |-> [i \in 1..Len(r.res.Items) |-> ydinfo(r.res.Items[i])],
              calls |-> calls, err |-> NoErr]

\* ydfs.WriteFile
WriteFile(t, y, name, data) ==
    LET fullname == getFullPath(y, name)
        w == putFileTruncate(t, fullname, data)
    IN  [tree |-> w.tree, calls |-> <<Call("putFile", fullname)>>,
         err |-> IF w.err # "" THEN PathError("write", name, w.err) ELSE NoErr]

\* Mkdir that makes the missing ancestors as well (used to test C23).
MkdirParents(t, y, name) ==
    LET fullname == getFullPath(y, name)
        k == Canon(fullname)
        m == mkdir(t, fullname)
        made == {SubSeq(k, 1, i) : i \in 1..Len(k)} \ DOMAIN t
    IN  IF m.err = "ErrNotFound"
        THEN [tree |-> [c \in DOMAIN t \cup made |->
                           IF c \in DOMAIN t THEN t[c]
                           ELSE [type |-> "dir", data |-> <<>>, busy |-> FALSE, denied |-> FALSE]],
              calls |-> <<Call("mkdir", fullname)>>, err |-> NoErr]
        ELSE [tree |-> m.tree, calls |-> <<Call("mkdir", fullname)>>,
              err |-> IF m.err # "" THEN PathError("mkdir", name, m.err) ELSE NoErr]

\* ydfs.Mkdir
Mkdir(t, y, name) ==
    LET fullname == getFullPath(y, name)
        m == mkdir(t, fullname)
    IN  [tree |-> m.tree, calls |-> <<Call("mkdir", fullname)>>,
         err |-> IF m.err # "" THEN PathError("mkdir", name, m.err) ELSE NoErr]

\* The error MkdirAll builds for the prefix toMake: trimRootPath slices the prefix.
MkdirAllError(y, toMake, cause) ==
    IF TrimPanics(y, toMake) THEN Panic
    ELSE PathError("mkdir", trimRootPath(y, toMake), cause)

RECURSIVE MkdirAllLoop(_, _, _, _, _, _, _)
\* MkdirAll after y.Mkdir(toMake) has returned m
MkdirAllMade(desc, y, split, i, toMake, calls, m) ==
    IF m.err.kind # "nil" THEN [tree |-> m.tree, err |-> m.err, calls |-> calls \o m.calls]
    ELSE MkdirAllLoop(m.tree, desc, y, split, i + 1, toMake, calls \o m.calls)

\* MkdirAll creating every prefix, existing directories too (used to test C3).
MkdirAllStatNoSkip(t, desc, y, split, i, toMake, calls, s) ==
    IF s.err.kind # "nil" /\ s.err.cause # "ErrNotFound"
    THEN [tree |-> t, err |-> MkdirAllError(y, toMake, s.err.cause), calls |-> calls \o s.calls]
    ELSE IF s.err.kind = "nil" /\ ~s.info.isdir
    THEN [tree |-> t, err |-> MkdirAllError(y, toMake, "not a directory"),
          calls |-> calls \o s.calls]
    ELSE MkdirAllMade(desc, y, split, i, toMake, calls \o s.calls, Mkdir(t, y, toMake))

\* MkdirAll going on to the next prefix when Stat fails (used to test C27).
MkdirAllStatIgnoreErr(t, desc, y, split, i, toMake, calls, s) ==
    IF s.err.kind # "nil" /\ s.err.cause # "ErrNotFound"
    THEN MkdirAllLoop(t, desc, y, split, i + 1, toMake, calls \o s.calls)
    ELSE IF s.err.kind = "nil" /\ ~s.info.isdir
    THEN [tree |-> t, err |-> MkdirAllError(y, toMake, "not a directory"),
          calls |-> calls \o s.calls]
    ELSE IF s.err.kind = "nil" /\ s.info.isdir
    THEN MkdirAllLoop(t, desc, y, split, i + 1, toMake, calls \o s.calls)
    ELSE MkdirAllMade(desc, y, split, i, toMake, calls \o s.calls, Mkdir(t, y, toMake))

\* MkdirAll putting a directory in the place of a file that is in its way (used to
\* test C26).
MkdirAllStatReplace(t, desc, y, split, i, toMake, calls, s) ==
    IF s.err.kind # "nil" /\ s.err.cause # "ErrNotFound"
    THEN [tree |-> t, err |-> MkdirAllError(y, toMake, s.err.cause), calls |-> calls \o s.calls]
    ELSE IF s.err.kind = "nil" /\ ~s.info.isdir
    THEN MkdirAllMade(desc, y, split, i, toMake,
                      calls \o s.calls \o <<Call("delResource", getFullPath(y, toMake))>>,
                      Mkdir(delResourcePermanently(t, getFullPath(y, toMake)).tree, y, toMake))
    ELSE IF s.err.kind = "nil" /\ s.info.isdir
    THEN MkdirAllLoop(t, desc, y, split, i + 1, toMake, calls \o s.calls)
    ELSE MkdirAllMade(desc, y, split, i, toMake, calls \o s.calls, Mkdir(t, y, toMake))

\* MkdirAll after y.Stat(toMake) has returned s
MkdirAllStat(t, desc, y, split, i, toMake, calls, s) ==
    IF s.err.kind # "nil" /\ s.err.cause # "ErrNotFound"
    THEN [tree |-> t, err |-> MkdirAllError(y, toMake, s.err.cause), calls |-> calls \o s.calls]
    ELSE IF s.err.kind = "nil" /\ ~s.info.isdir
    THEN [tree |-> t, err |-> MkdirAllError(y, toMake, "not a directory"),
          calls |-> calls \o s.calls]
    ELSE IF s.err.kind = "nil" /\ s.info.isdir
    THEN MkdirAllLoop(t, desc, y, split, i + 1, toMake, calls \o s.calls)
    ELSE MkdirAllMade(desc, y, split, i, toMake, calls \o s.calls, Mkdir(t, y, toMake))

\* MkdirAll with toMake already extended by "/" + split[i]
MkdirAllStep(t, desc, y, split, i, toMake, calls) ==
    MkdirAllStat(t, desc, y, split, i, toMake, calls, Stat(t, desc, y, toMake))

\* The loop of ydfs.MkdirAll over split[i..], with toMake the prefix built so far.
MkdirAllLoop(t, desc, y, split, i, toMake, calls) ==
    IF i > Len(split) THEN [tree |-> t, err |-> NoErr, calls |-> calls]
    ELSE MkdirAllStep(t, desc, y, split, i, toMake \o <<"/">> \o split[i], calls)

\* ydfs.MkdirAll
MkdirAll(t, desc, y, dir) ==
    LET fullname == getFullPath(y, dir)
        split == Split(Trim(fullname))
    IN  MkdirAllLoop(t, desc, y, split, 1, <<>>, <<>>)

\* Remove without the emptiness check (used to test C5).
RemoveNoCheck(t, desc, y, name) ==
    LET fullname == getFullPath(y, name)
        r == getResourceWithEmbedded(t, desc, fullname)
        c1 == <<Call("getResourceWithEmbedded", fullname)>>
        d == delResourcePermanently(t, name)
        c2 == c1 \o <<Call("delResource", name)>>
    IN  IF r.err # "" THEN [tree |-> t, err |-> PathError("stat", name, r.err), calls |-> c1]
        ELSE IF d.err # ""
             THEN [tree |-> d.tree, err |-> PathError("remove", name, d.err), calls |-> c2]
        ELSE [tree |-> d.tree, err |-> NoErr, calls |-> c2]

\* ydfs.Remove
Remove(t, desc, y, name) ==
    LET fullname == getFullPath(y, name)
        r == getResourceWithEmbedded(t, desc, fullname)
        c1 == <<Call("getResourceWithEmbedded", fullname)>>
        d == delResourcePermanently(t, name)
        c2 == c1 \o <<Call("delResource", name)>>
    IN  IF r.err # "" THEN [tree |-> t, err |-> PathError("stat", name, r.err), calls |-> c1]
        ELSE IF r.res.Type = "dir" /\ Len(r.res.Items) > 0
             THEN [tree |-> t, err |-> PathError("remove", name, "directory not empty"),
                   calls |-> c1]
        ELSE IF d.err # ""
             THEN [tree |-> d.tree, err |-> PathError("remove", name, d.err), calls |-> c2]
        ELSE [tree |-> d.tree, err |-> NoErr, calls |-> c2]

\* ydfs.Remove up to its delete request: the fetch and the two checks.  go says
\* whether the call goes on to the delete.
RemoveFetch(t, desc, y, name) ==
    LET fullname == getFullPath(y, name)
        r == getResourceWithEmbedded(t, desc, fullname)
        c1 == <<Call("getResourceWithEmbedded", fullname)>>
    IN  IF r.err # "" THEN [go |-> FALSE, err |-> PathError("stat", name, r.err), calls |-> c1]
        ELSE IF r.res.Type = "dir" /\ Len(r.res.Items) > 0
             THEN [go |-> FALSE, err |-> PathError("remove", name, "directory not empty"),
                   calls |-> c1]
        ELSE [go |-> TRUE, err |-> NoErr, calls |-> c1]

\* ydfs.Remove from its delete request on, on the tree as it is by then
RemoveDelete(t, name, c1) ==
    LET d == delResourcePermanently(t, name)
        c2 == c1 \o <<Call("delResource", name)>>
    IN  IF d.err # ""
        THEN [tree |-> d.tree, err |-> PathError("remove", name, d.err), calls |-> c2]
        ELSE [tree |-> d.tree, err |-> NoErr, calls |-> c2]

RECURSIVE RemoveAll(_, _, _, _)
RECURSIVE RemoveChildren(_, _, _, _, _, _)
\* The loop going on to the next child after a failure, keeping the first error
\* (used to test C24).
RemoveChildrenKeepGoing(t, desc, y, items, i, calls) ==
    IF i > Len(items) THEN [tree |-> t, err |-> NoErr, calls |-> calls]
    ELSE LET r == RemoveAll(t, desc, y, items[i].Path)
             rest == RemoveChildren(r.tree, desc, y, items, i + 1, calls \o r.calls)
         IN  [tree |-> rest.tree, calls |-> rest.calls,
              err |-> IF r.err.kind # "nil" THEN r.err ELSE rest.err]

\* The loop of ydfs.RemoveAll over the fetched children items[i..].
RemoveChildren(t, desc, y, items, i, calls) ==
    IF i > Len(items) THEN [tree |-> t, err |-> NoErr, calls |-> calls]
    ELSE LET r == RemoveAll(t, desc, y, items[i].Path)
         IN  IF r.err.kind # "nil"
             THEN [tree |-> r.tree, err |-> r.err, calls |-> calls \o r.calls]
             ELSE RemoveChildren(r.tree, desc, y, items, i + 1, calls \o r.calls)

\* RemoveAll treating an absent target as an error (used to test C2).
RemoveAllStrict(t, desc, y, dir) ==
    LET fullname == getFullPath(y, dir)
        r == getResourceWithEmbedded(t, desc, fullname)
        c1 == <<Call("getResourceWithEmbedded", fullname)>>
    IN  IF r.err # "" THEN [tree |-> t, err |-> PathError("remove", dir, r.err),
                            calls |-> c1]
        ELSE LET ch == RemoveChildren(t, desc, y, r.res.Items, 1, c1)
                 d == delResourcePermanently(ch.tree, dir)
                 c2 == ch.calls \o <<Call("delResource", dir)>>
             IN  IF ch.err.kind # "nil" THEN ch
                 ELSE IF d.err # ""
                      THEN [tree |-> d.tree, err |-> PathError("remove", dir, d.err),
                            calls |-> c2]
                 ELSE [tree |-> d.tree, err |-> NoErr, calls |-> c2]

\* ydfs.RemoveAll
RemoveAll(t, desc, y, dir) ==
    LET fullname == getFullPath(y, dir)
        r == getResourceWithEmbedded(t, desc, fullname)
        c1 == <<Call("getResourceWithEmbedded", fullname)>>
    IN  IF r.err = "ErrNotFound" THEN [tree |-> t, err |-> NoErr, calls |-> c1]
        ELSE IF r.err # "" THEN [tree |-> t, err |-> PathError("remove", dir, r.err),
                                 calls |-> c1]
        ELSE LET ch == RemoveChildren(t, desc, y, r.res.Items, 1, c1)
                 d == delResourcePermanently(ch.tree, dir)
                 c2 == ch.calls \o <<Call("delResource", dir)>>
             IN  IF ch.err.kind # "nil" THEN ch
                 ELSE IF d.err # ""
                      THEN [tree |-> d.tree, err |-> PathError("remove", dir, d.err),
                            calls |-> c2]
                 ELSE [tree |-> d.tree, err |-> NoErr, calls |-> c2]

-----------------------------------------------------------------------------
(* type ydfile (file.go): the read cursor and the directory cursor *)

RECURSIVE ReadLoop(_, _, _, _, _)
\* The copy loop without file.roffset++ : every byte is taken from the same place.
ReadLoopStuck(data, roffset, i, toRead, b) ==
    [roffset |-> roffset + toRead, b |-> [j \in 1..toRead |-> data[roffset + 1]]]

\* for i := 0; i < toRead; i++ { b[i] = file.data[file.roffset]; file.roffset++ }
ReadLoop(data, roffset, i, toRead, b) ==
    IF i >= toRead THEN [roffset |-> roffset, b |-> b]
    ELSE ReadLoop(data, roffset + 1, i + 1, toRead, Append(b, data[roffset + 1]))

\* Read without the check for a directory.
ReadNoDirCheck(t, file, blen) ==
    LET g == getFile(t, file.path)
        calls == <<Call("getFile", file.path)>>
    IN  IF g.err # ""
        THEN [file |-> file, n |-> 0, bytes |-> <<>>, calls |-> calls,
              err |-> PathError("read", file.path, g.err)]
        ELSE [file |-> [file EXCEPT !.data = [nil |-> FALSE, bytes |-> g.data]], n |-> 0,
              bytes |-> <<>>, calls |-> calls, err |-> EOF]

\* Read with the end of the stream reported as soon as the copy reaches the end of
\* the body (toRead >= remaining instead of toRead > remaining).
ReadEagerEOF(t, file, blen) ==
    LET fetch == file.data.nil
        g == getFile(t, file.path)
        calls == IF fetch THEN <<Call("getFile", file.path)>> ELSE <<>>
        f1 == IF fetch
              THEN [file EXCEPT !.data = [nil |-> FALSE, bytes |-> g.data], !.roffset = 0]
              ELSE file
        remaining == Len(f1.data.bytes) - f1.roffset
        toRead == IF blen > remaining THEN remaining ELSE blen
        done == ReadLoop(f1.data.bytes, f1.roffset, 0, toRead, <<>>)
    IN  IF file.isdir
        THEN [file |-> file, n |-> 0, bytes |-> <<>>, calls |-> <<>>,
              err |-> PathError("read", file.path, "is a directory")]
        ELSE IF fetch /\ g.err # ""
        THEN [file |-> file, n |-> 0, bytes |-> <<>>, calls |-> calls,
              err |-> PathError("read", file.path, g.err)]
        ELSE IF f1.roffset = Len(f1.data.bytes)
        THEN [file |-> f1, n |-> 0, bytes |-> <<>>, calls |-> calls, err |-> EOF]
        ELSE [file |-> [f1 EXCEPT !.roffset = done.roffset], n |-> Len(done.b),
              bytes |-> done.b, calls |-> calls,
              err |-> IF blen >= remaining THEN EOF ELSE NoErr]

\* ydfile.Read into a buffer of length blen
Read(t, file, blen) ==
    LET fetch == file.data.nil
        g == getFile(t, file.path)
        calls == IF fetch THEN <<Call("getFile", file.path)>> ELSE <<>>
        f1 == IF fetch
              THEN [file EXCEPT !.data = [nil |-> FALSE, bytes |-> g.data], !.roffset = 0]
              ELSE file
        remaining == Len(f1.data.bytes) - f1.roffset
        toRead == IF blen > remaining THEN remaining ELSE blen
        done == ReadLoop(f1.data.bytes, f1.roffset, 0, toRead, <<>>)
    IN  IF file.isdir
        THEN [file |-> file, n |-> 0, bytes |-> <<>>, calls |-> <<>>,
              err |-> PathError("read", file.path, "is a directory")]
        ELSE IF fetch /\ g.err # ""
        THEN [file |-> file, n |-> 0, bytes |-> <<>>, calls |-> calls,
              err |-> PathError("read", file.path, g.err)]
        ELSE IF f1.roffset = Len(f1.data.bytes)
        THEN [file |-> f1, n |-> 0, bytes |-> <<>>, calls |-> calls, err |-> EOF]
        ELSE [file |-> [f1 EXCEPT !.roffset = done.roffset], n |-> Len(done.b),
              bytes |-> done.b, calls |-> calls,
              err |-> IF blen > remaining THEN EOF ELSE NoErr]

\* Stat that forgets the body the handle holds (used to test C29).
FileStatDropsBody(t, desc, file) ==
    LET u == update(t, desc, file)
        calls == <<Call("getResource", file.path)>>
    IN  IF u.err # ""
        THEN [file |-> file, err |-> PathError("stat", file.path, u.err), calls |-> calls,
              info |-> NoInfo]
        ELSE [file |-> [u.file EXCEPT !.data = NilData, !.roffset = 0], err |-> NoErr,
              calls |-> calls, info |-> Info(u.file)]

\* ydfile.Stat
FileStat(t, desc, file) ==
    LET u == update(t, desc, file)
        calls == <<Call("getResource", file.path)>>
    IN  IF u.err # ""
        THEN [file |-> file, err |-> PathError("stat", file.path, u.err), calls |-> calls,
              info |-> NoInfo]
        ELSE [file |-> u.file, err |-> NoErr, calls |-> calls, info |-> Info(u.file)]

\* Close dropping the body, so that the next Read fetches it again.
CloseToNil(file) == [file EXCEPT !.data = NilData, !.roffset = 0]

\* ydfile.Close
Close(file) == [file EXCEPT !.data = [nil |-> FALSE, bytes |-> <<>>], !.roffset = 0]

\* ReadDir reporting the end of the stream as soon as nothing is left after the
\* batch (used to test C32).
ReadDirEagerEOF(t, desc, file, n) ==
    LET r == getResourceWithEmbedded(t, desc, file.path)
        calls == <<Call("getResourceWithEmbedded", file.path)>>
        total == Len(r.res.Items)
        remaining == total - file.rdoffset
        cnt == IF n < 1 THEN total ELSE IF n > remaining THEN remaining
               ELSE IF n < remaining THEN remaining ELSE n
        start == IF n < 1 THEN 0 ELSE file.rdoffset
        f1 == [file EXCEPT !.rdoffset = start + cnt]
    IN  IF ~file.isdir
        THEN [file |-> file, entries |-> <<>>, calls |-> <<>>,
              err |-> PathError("readdirent", file.path, "not a directory")]
        ELSE IF r.err # ""
        THEN [file |-> file, entries |-> <<>>, calls |-> calls,
              err |-> PathError("readdirent", file.path, r.err)]
        ELSE IF cnt < 0
        THEN [file |-> file, entries |-> <<>>, calls |-> calls, err |-> Panic]
        ELSE [file |-> f1, entries |-> [i \in 1..cnt |-> Info(f1)], calls |-> calls,
              err |-> IF n >= 1 /\ n >= remaining THEN EOF ELSE NoErr]

\* ydfile.ReadDir(n): every entry of the batch is the ydfile itself
ReadDir(t, desc, file, n) ==
    LET r == getResourceWithEmbedded(t, desc, file.path)
        calls == <<Call("getResourceWithEmbedded", file.path)>>
        total == Len(r.res.Items)
        remaining == total - file.rdoffset
        cnt == IF n < 1 THEN total ELSE IF n > remaining THEN remaining
               ELSE IF n < remaining THEN remaining ELSE n
        start == IF n < 1 THEN 0 ELSE file.rdoffset
        f1 == [file EXCEPT !.rdoffset = start + cnt]
    IN  IF ~file.isdir
        THEN [file |-> file, entries |-> <<>>, calls |-> <<>>,
              err |-> PathError("readdirent", file.path, "not a directory")]
        ELSE IF r.err # ""
        THEN [file |-> file, entries |-> <<>>, calls |-> calls,
              err |-> PathError("readdirent", file.path, r.err)]
        ELSE IF cnt < 0
        THEN [file |-> file, entries |-> <<>>, calls |-> calls, err |-> Panic]
        ELSE [file |-> f1, entries |-> [i \in 1..cnt |-> Info(f1)], calls |-> calls,
              err |-> IF n >= 1 /\ n > remaining THEN EOF ELSE NoErr]

-----------------------------------------------------------------------------
(* The state machine.  Every call is one step; last records the call.      *)

LastRec(op, v, f, name, arg, n, bytes, info, entries, err, calls) ==
    [op |-> op, view |-> v, file |-> f, name |-> name, arg |-> arg, n |-> n,
     bytes |-> bytes, info |-> info, entries |-> entries, err |-> err, calls |-> calls,
     ret |-> NilInterface, full |-> <<>>, rel |-> <<>>]

\* New: an unscoped view of the whole disk
NewFS == [path |-> <<"/">>, issub |-> FALSE]

EmptyDisk == [k \in {Root} |-> [type |-> "dir", data |-> <<>>, busy |-> FALSE, denied |-> FALSE]]

\* The record of a handle that was closed or whose node was changed: nothing more is
\* kept of what it has delivered.
Lost(closed) == [got |-> <<>>, intact |-> FALSE, closed |-> closed]

\* The caller's record of its handles after the tree went from t1 to t2: a handle
\* stays intact while nothing at or beneath its path has changed.
Touch(h, fs, t1, t2) ==
    [i \in DOMAIN h |->
        IF h[i].intact
           /\ \A c \in Subtree(t1, Canon(fs[i].path)) \cup Subtree(t2, Canon(fs[i].path)) :
                 c \in DOMAIN t1 /\ c \in DOMAIN t2 /\ t1[c] = t2[c]
        THEN h[i] ELSE Lost(h[i].closed)]

Init ==
    /\ tree = EmptyDisk
    /\ listDesc \in BOOLEAN
    /\ views = {NewFS}
    /\ files = <<>>
    /\ hist = <<>>
    /\ last = LastRec("New", NewFS, 0, <<>>, 0, 0, <<>>, NoInfo, <<>>, NoErr, <<>>)
    /\ removing = <<>>

SubAct(v, name) ==
    /\ \E r \in {Sub(tree, listDesc, v, name)} :
           /\ views' = IF r.err.kind = "nil" THEN views \cup {r.fs} ELSE views
           /\ last' = LastRec("Sub", v, 0, name, 0, 0, <<>>, NoInfo, <<>>, r.err, r.calls)
    /\ UNCHANGED <<tree, listDesc, files, hist, removing>>

StatAct(v, name) ==
    /\ \E r \in {Stat(tree, listDesc, v, name)} :
           last' = [LastRec("Stat", v, 0, name, 0, 0, <<>>, r.info, <<>>, r.err, r.calls)
                       EXCEPT !.ret = r.ret]
    /\ UNCHANGED <<tree, listDesc, views, files, hist, removing>>

ReadFileAct(v, name) ==
    /\ \E r \in {ReadFile(tree, v, name)} :
           last' = LastRec("ReadFile", v, 0, name, 0, Len(r.data), r.data, NoInfo, <<>>,
                           r.err, r.calls)
    /\ UNCHANGED <<tree, listDesc, views, files, hist, removing>>

ReadDirFSAct(v, name) ==
    /\ \E r \in {ReadDirFS(tree, listDesc, v, name)} :
           last' = LastRec("ReadDirFS", v, 0, name, 0, Len(r.entries), <<>>, NoInfo, r.entries,
                           r.err, r.calls)
    /\ UNCHANGED <<tree, listDesc, views, files, hist, removing>>

\* Open while fewer than max handles are held.
OpenUpTo(max, v, name) ==
    /\ Len(files) < max
    /\ \E r \in {Open(tree, listDesc, v, name)} :
           /\ files' = IF r.err.kind = "nil" THEN Append(files, r.file) ELSE files
           /\ hist' = IF r.err.kind = "nil"
                      THEN Append(hist, [got |-> <<>>, intact |-> TRUE, closed |-> FALSE]) ELSE hist
           /\ last' = [LastRec("Open", v, IF r.err.kind = "nil" THEN Len(files) + 1 ELSE 0,
                               name, 0, 0, <<>>, NoInfo, <<>>, r.err, r.calls)
                           EXCEPT !.ret = r.ret]
    /\ UNCHANGED <<tree, listDesc, views, removing>>

OpenAct(v, name) == OpenUpTo(MaxFiles, v, name)

WriteFileAct(v, name, data) ==
    /\ \E r \in {WriteFile(tree, v, name, data)} :
           /\ tree' = r.tree
           /\ hist' = Touch(hist, files, tree, r.tree)
           /\ last' = LastRec("WriteFile", v, 0, name, 0, 0, data, NoInfo, <<>>, r.err, r.calls)
    /\ UNCHANGED <<listDesc, views, files, removing>>

MkdirAct(v, name) ==
    /\ \E r \in {Mkdir(tree, v, name)} :
           /\ tree' = r.tree
           /\ hist' = Touch(hist, files, tree, r.tree)
           /\ last' = LastRec("Mkdir", v, 0, name, 0, 0, <<>>, NoInfo, <<>>, r.err, r.calls)
    /\ UNCHANGED <<listDesc, views, files, removing>>

MkdirAllAct(v, name) ==
    /\ \E r \in {MkdirAll(tree, listDesc, v, name)} :
           /\ tree' = r.tree
           /\ hist' = Touch(hist, files, tree, r.tree)
           /\ last' = LastRec("MkdirAll", v, 0, name, 0, 0, <<>>, NoInfo, <<>>, r.err, r.calls)
    /\ UNCHANGED <<listDesc, views, files, removing>>

\* getFullPath(name) and then trimRootPath of what it returned: full is the absolute
\* path, rel the path handed back to the caller (the slice may be out of range).
ResolveAct(v, name) ==
    /\ \E full \in {getFullPath(v, name)} :
           last' = [LastRec("Resolve", v, 0, name, 0, 0, <<>>, NoInfo, <<>>,
                            IF TrimPanics(v, full) THEN Panic ELSE NoErr, <<>>)
                       EXCEPT !.full = full,
                              !.rel = IF TrimPanics(v, full) THEN <<>>
                                      ELSE trimRootPath(v, full)]
    /\ UNCHANGED <<tree, listDesc, views, files, hist, removing>>

\* The remote stops showing the node k: requests to fetch it fail from now on.
DenyAct(k) ==
    /\ k \in DOMAIN tree /\ k # Root /\ ~tree[k].denied
    /\ tree' = [tree EXCEPT ![k].denied = TRUE]
    /\ hist' = Touch(hist, files, tree, tree')
    /\ last' = LastRec("Deny", NewFS, 0, JoinSegs(k), 0, 0, <<>>, NoInfo, <<>>, NoErr, <<>>)
    /\ UNCHANGED <<listDesc, views, files, removing>>

\* The remote locks the node k: requests that would change it fail from now on.
LockAct(k) ==
    /\ k \in DOMAIN tree /\ k # Root /\ ~tree[k].busy
    /\ tree' = [tree EXCEPT ![k].busy = TRUE]
    /\ hist' = Touch(hist, files, tree, tree')
    /\ last' = LastRec("Lock", NewFS, 0, JoinSegs(k), 0, 0, <<>>, NoInfo, <<>>, NoErr, <<>>)
    /\ UNCHANGED <<listDesc, views, files, removing>>

RemoveAct(v, name) ==
    /\ \E r \in {Remove(tree, listDesc, v, name)} :
           /\ tree' = r.tree
           /\ hist' = Touch(hist, files, tree, r.tree)
           /\ last' = LastRec("Remove", v, 0, name, 0, 0, <<>>, NoInfo, <<>>, r.err, r.calls)
    /\ UNCHANGED <<listDesc, views, files, removing>>

\* Remove up to its delete request; other calls may be served by the remote before
\* the call goes on.
RemoveFetchAct(v, name) ==
    /\ Len(removing) < MaxRemoving
    /\ \E r \in {RemoveFetch(tree, listDesc, v, name)} :
           /\ removing' = IF r.go
                           THEN Append(removing, [view |-> v, name |-> name, calls |-> r.calls])
                           ELSE removing
           /\ last' = LastRec(IF r.go THEN "RemoveFetch" ELSE "Remove", v, 0, name,
                              0, 0, <<>>, NoInfo, <<>>, r.err, r.calls)
    /\ UNCHANGED <<tree, listDesc, views, files, hist>>

\* The Remove call i in flight asks for its delete and returns.
RemoveDeleteAct(i) ==
    /\ \E r \in {RemoveDelete(tree, removing[i].name, removing[i].calls)} :
           /\ tree' = r.tree
           /\ hist' = Touch(hist, files, tree, r.tree)
           /\ last' = LastRec("Remove", removing[i].view, 0, removing[i].name, i, 0, <<>>,
                              NoInfo, <<>>, r.err, r.calls)
    /\ removing' = [j \in 1..(Len(removing) - 1) |->
                        IF j < i THEN removing[j] ELSE removing[j + 1]]
    /\ UNCHANGED <<listDesc, views, files>>

RemoveAllAct(v, name) ==
    /\ \E r \in {RemoveAll(tree, listDesc, v, name)} :
           /\ tree' = r.tree
           /\ hist' = Touch(hist, files, tree, r.tree)
           /\ last' = LastRec("RemoveAll", v, 0, name, 0, 0, <<>>, NoInfo, <<>>, r.err, r.calls)
    /\ UNCHANGED <<listDesc, views, files, removing>>

\* Read with one body and one cursor kept for every handle of the same path (used to
\* test C34).
ReadActShared(f, blen) ==
    /\ \E r \in {Read(tree, files[f], blen)} :
           /\ files' = [g \in DOMAIN files |->
                            IF files[g].path = files[f].path THEN r.file ELSE files[g]]
           /\ hist' = [hist EXCEPT ![f].got = IF hist[f].intact THEN @ \o r.bytes ELSE @]
           /\ last' = LastRec("Read", NewFS, f, <<>>, blen, r.n, r.bytes, NoInfo, <<>>, r.err, r.calls)
    /\ UNCHANGED <<tree, listDesc, views, removing>>

ReadAct(f, blen) ==
    /\ \E r \in {Read(tree, files[f], blen)} :
           /\ files' = [files EXCEPT ![f] = r.file]
           /\ hist' = [hist EXCEPT ![f].got = IF hist[f].intact THEN @ \o r.bytes ELSE @]
           /\ last' = LastRec("Read", NewFS, f, <<>>, blen, r.n, r.bytes, NoInfo, <<>>, r.err, r.calls)
    /\ UNCHANGED <<tree, listDesc, views, removing>>

FileStatAct(f) ==
    /\ \E r \in {FileStat(tree, listDesc, files[f])} :
           /\ files' = [files EXCEPT ![f] = r.file]
           /\ hist' = hist
           /\ last' = LastRec("FileStat", NewFS, f, <<>>, 0, 0, <<>>, r.info, <<>>, r.err, r.calls)
    /\ UNCHANGED <<tree, listDesc, views, removing>>

CloseAct(f) ==
    /\ files' = [files EXCEPT ![f] = Close(files[f])]
    /\ hist' = [hist EXCEPT ![f] = Lost(TRUE)]
    /\ last' = LastRec("Close", NewFS, f, <<>>, 0, 0, <<>>, NoInfo, <<>>, NoErr, <<>>)
    /\ UNCHANGED <<tree, listDesc, views, removing>>

ReadDirAct(f, n) ==
    /\ \E r \in {ReadDir(tree, listDesc, files[f], n)} :
           /\ files' = [files EXCEPT ![f] = r.file]
           /\ hist' = hist
           /\ last' = LastRec("ReadDir", NewFS, f, <<>>, n, Len(r.entries), <<>>, NoInfo, r.entries,
                              r.err, r.calls)
    /\ UNCHANGED <<tree, listDesc, views, removing>>

-----------------------------------------------------------------------------
(* Spec: the operations of a view on the tree.  The names a caller gives:   *)
(* an unscoped view hands a name to the remote as it is, and what the       *)
(* remote makes of ".." is not the program's, so only scoped views get one. *)

TreeNames == {<<"/">>, <<"a">>, <<"b">>, <<"/", "a", "/", "b">>}

DotNames == {<<".", ".", "/", "b">>}

SubNames == {<<"a">>}

NamesOf(y) == IF y.issub THEN TreeNames \cup DotNames ELSE TreeNames

Next ==
    \/ \E name \in SubNames : SubAct(NewFS, name)
    \/ \E v \in views : \E name \in NamesOf(v) : StatAct(v, name)
    \/ \E v \in views : \E name \in NamesOf(v) : WriteFileAct(v, name, <<1>>)
    \/ \E v \in views : \E name \in NamesOf(v) : MkdirAct(v, name)
    \/ \E v \in views : \E name \in NamesOf(v) : MkdirAllAct(v, name)
    \/ \E v \in views : \E name \in NamesOf(v) : RemoveAct(v, name)
    \/ \E v \in views : \E name \in NamesOf(v) : RemoveAllAct(v, name)

Spec == Init /\ [][Next]_vars

-----------------------------------------------------------------------------
(* SpecFile: one file that is written, opened, read, refreshed and closed.  *)
(* A payload of n bytes is 1, 2, ..., n: every position holds its own byte.  *)

Payload(n) == [i \in 1..n |-> i]

Payloads == {Payload(n) : n \in 0..MaxLen}

FileName == <<"a">>

NextFile ==
    \/ \E data \in Payloads : WriteFileAct(NewFS, FileName, data)
    \/ OpenAct(NewFS, FileName)
    \/ \E f \in DOMAIN files : \E blen \in 0..MaxBuf : ReadAct(f, blen)
    \/ \E f \in DOMAIN files : FileStatAct(f)
    \/ \E f \in DOMAIN files : CloseAct(f)

SpecFile == Init /\ [][NextFile]_vars

-----------------------------------------------------------------------------
(* SpecHandles: several handles at once.  The root holds the file a and, at *)
(* times, the directory b; handles are opened on the file and on the root   *)
(* and are read with Read and ReadDir and closed in any order.              *)

HandleNames == {<<"a">>, <<"/">>}

NextHandles ==
    \/ WriteFileAct(NewFS, <<"a">>, Payload(MaxLen))
    \/ MkdirAct(NewFS, <<"b">>)
    \/ \E name \in HandleNames : OpenUpTo(MaxHandles, NewFS, name)
    \/ \E f \in DOMAIN files : ReadAct(f, 1)
    \/ \E f \in DOMAIN files : \E n \in {-1, 1} : ReadDirAct(f, n)
    \/ \E f \in DOMAIN files : CloseAct(f)
    \/ \E name \in HandleNames : ReadDirFSAct(NewFS, name)

SpecHandles == Init /\ [][NextHandles]_vars

-----------------------------------------------------------------------------
(* SpecDir: the directory cursor.  Children come and go in the root and     *)
(* handles opened on the root are read with ReadDir.                         *)

ChildNames == {<<"a">>, <<"b">>, <<"c">>}

DirName == <<"/">>

NextDir ==
    \/ \E name \in ChildNames : MkdirAct(NewFS, name)
    \/ \E name \in ChildNames : WriteFileAct(NewFS, name, <<1>>)
    \/ \E name \in ChildNames : RemoveAct(NewFS, name)
    \/ OpenAct(NewFS, DirName)
    \/ \E f \in DOMAIN files : \E n \in -1..MaxN : ReadDirAct(f, n)
    \/ \E f \in DOMAIN files : \E blen \in {0, MaxBuf} : ReadAct(f, blen)
    \/ \E f \in DOMAIN files : CloseAct(f)

SpecDir == Init /\ [][NextDir]_vars

-----------------------------------------------------------------------------
(* SpecCalls: every call of a view, on paths that are there and on paths     *)
(* that are not.  The unscoped view builds /a and /a/b; any view, scoped     *)
(* ones included, is asked about the names a and b.                          *)

BuildNames == {<<"a">>, <<"a", "/", "b">>}

CallNames == {<<"a">>, <<"b">>}

NextCalls ==
    \/ \E name \in BuildNames : MkdirAct(NewFS, name)
    \/ \E name \in BuildNames : WriteFileAct(NewFS, name, <<1>>)
    \/ \E v \in views : \E name \in CallNames : SubAct(v, name)
    \/ \E v \in views : \E name \in CallNames : StatAct(v, name)
    \/ \E v \in views : \E name \in CallNames : OpenAct(v, name)
    \/ \E v \in views : \E name \in CallNames : ReadFileAct(v, name)
    \/ \E v \in views : \E name \in CallNames : ReadDirFSAct(v, name)
    \/ \E v \in views : \E name \in CallNames : RemoveAct(v, name)
    \/ \E v \in views : \E name \in CallNames : RemoveAllAct(v, name)

SpecCalls == Init /\ [][NextCalls]_vars

-----------------------------------------------------------------------------
(* SpecLocked: a directory with two children, some of which the remote      *)
(* refuses to delete.  The unscoped view builds /a with the children b and  *)
(* c, the remote locks nodes, the directory is listed with ReadDir and      *)
(* RemoveAll is asked to remove it.                                         *)

LockedNames == {<<"a">>, <<"a", "/", "b">>, <<"a", "/", "c">>}

NextLocked ==
    \/ \E name \in LockedNames : MkdirAct(NewFS, name)
    \/ \E name \in LockedNames : WriteFileAct(NewFS, name, <<1>>)
    \/ \E name \in LockedNames \ {<<"a">>} : LockAct(Canon(name))
    \/ \E name \in LockedNames : ReadDirFSAct(NewFS, name)
    \/ \E name \in LockedNames : RemoveAllAct(NewFS, name)

SpecLocked == Init /\ [][NextLocked]_vars

-----------------------------------------------------------------------------
(* SpecPath: the two path functions of a view.  The unscoped view builds /a *)
(* and /a/b, views of them are taken with Sub, and every view resolves the  *)
(* names of PathNames and hands the result back.                            *)

ScopeNames == {<<"a">>, <<"a", "/", "b">>}

PathNames ==
    {<<>>, <<"/">>, <<".">>, <<"b">>, <<"/", "b">>, <<"b", "/">>, <<"a", "/", "b">>,
     <<"a", "/", "/", "b">>, <<".", "/", "b">>, <<"b", "/", ".", ".">>,
     <<"b", "/", ".", ".", "/", "c">>, <<".", ".", "/", "b">>, <<".", ".">>}

NextPath ==
    \/ \E name \in ScopeNames : MkdirAct(NewFS, name)
    \/ \E name \in ScopeNames : SubAct(NewFS, name)
    \/ \E v \in views : \E name \in PathNames : ResolveAct(v, name)

SpecPath == Init /\ [][NextPath]_vars

-----------------------------------------------------------------------------
(* SpecWalk: MkdirAll walking down paths some of whose prefixes are there,  *)
(* are files, or cannot be fetched.  The unscoped view builds and removes   *)
(* /a and /a/b, the remote denies nodes, and the unscoped view and the view *)
(* of /a are asked to make the paths of WalkNames.                          *)

WalkBuild == {<<"a">>, <<"a", "/", "b">>}

WalkNames == {<<"b">>, <<"a", "/", "b">>, <<"a", "/", "b", "/", "c">>}

NextWalk ==
    \/ \E name \in WalkBuild : MkdirAct(NewFS, name)
    \/ \E name \in WalkBuild : WriteFileAct(NewFS, name, <<1>>)
    \/ \E name \in WalkBuild : DenyAct(Canon(name))
    \/ RemoveAllAct(NewFS, <<"a">>)
    \/ SubAct(NewFS, <<"a">>)
    \/ \E v \in views : \E name \in WalkNames : MkdirAllAct(v, name)

SpecWalk == Init /\ [][NextWalk]_vars

-----------------------------------------------------------------------------
(* SpecStale: views whose base directory has gone.  The unscoped view       *)
(* builds /a and /a/b, takes the views of them and removes them again, and  *)
(* every scoped view, stale ones included, is given each call on the names  *)
(* of StaleNames.                                                           *)

StaleScopes == {<<"a">>, <<"a", "/", "b">>}

StaleNames == {<<"c">>, <<"/">>}

Scoped == {v \in views : v.issub}

NextStale ==
    \/ \E name \in StaleScopes : MkdirAct(NewFS, name)
    \/ \E name \in StaleScopes : SubAct(NewFS, name)
    \/ \E name \in StaleScopes : RemoveAllAct(NewFS, name)
    \/ \E v \in Scoped : \E name \in StaleNames : SubAct(v, name)
    \/ \E v \in Scoped : \E name \in StaleNames : StatAct(v, name)
    \/ \E v \in Scoped : \E name \in StaleNames : OpenAct(v, name)
    \/ \E v \in Scoped : \E name \in StaleNames : ReadFileAct(v, name)
    \/ \E v \in Scoped : \E name \in StaleNames : ReadDirFSAct(v, name)
    \/ \E v \in Scoped : \E name \in StaleNames : RemoveAct(v, name)
    \/ \E v \in Scoped : \E name \in StaleNames : MkdirAllAct(v, name)

SpecStale == Init /\ [][NextStale]_vars

-----------------------------------------------------------------------------
(* SpecRace: Remove while another client of the same disk is at work.  The  *)
(* directories and files of RaceNames are made through the unscoped view;   *)
(* Remove is taken in its two requests, the fetch and the delete, and any   *)
(* other call may be served between them.                                   *)

RaceNames == {<<"a">>, <<"a", "/", "b">>, <<"a", "/", "c">>}

NextRace ==
    \/ \E name \in RaceNames : MkdirAct(NewFS, name)
    \/ \E name \in RaceNames : WriteFileAct(NewFS, name, <<1>>)
    \/ \E name \in RaceNames : RemoveFetchAct(NewFS, name)
    \/ \E i \in DOMAIN removing : RemoveDeleteAct(i)

SpecRace == Init /\ [][NextRace]_vars

-----------------------------------------------------------------------------
(* Properties of the tree operations *)

\* The requests of one kind among the remote calls of a call.
CallsOf(calls, fn) == SelectSeq(calls, LAMBDA c : c.fn = fn)

Targets(calls) == {Canon(calls[i].path) : i \in 1..Len(calls)}

Prefixes(k) == {SubSeq(k, 1, i) : i \in 1..Len(k)}

Without(t, k) == [c \in DOMAIN t \ Subtree(t, k) |-> t[c]]

\* C2: on an unscoped view RemoveAll(p) of an existing node (not the disk's root) returns
\* no error and removes exactly p and its descendants, so that Stat(p) then fails with
\* NotFound; RemoveAll(p) of an absent p returns no error and changes nothing.
C2_RemoveAllRemovesSubtree ==
    [][(last'.op = "RemoveAll" /\ ~last'.view.issub) =>
          LET k == Canon(last'.name)
          IN  /\ (k \in DOMAIN tree /\ k # Root) =>
                    /\ last'.err = NoErr
                    /\ tree' = Without(tree, k)
                    /\ Stat(tree', listDesc, last'.view, last'.name).err.cause = "ErrNotFound"
              /\ k \notin DOMAIN tree =>
                    /\ last'.err = NoErr
                    /\ tree' = tree
                    /\ CallsOf(last'.calls, "delResource") = <<>>]_vars

\* A RemoveAll on the unscoped view that removed a node with at least two descendants.
C2_Witness ==
    /\ last.op = "RemoveAll" /\ ~last.view.issub /\ last.err = NoErr
    /\ Len(CallsOf(last.calls, "delResource")) >= 3
    /\ Canon(last.name) \notin DOMAIN tree

\* C3: on an unscoped view MkdirAll of a path none of whose prefixes is a file returns no
\* error and creates exactly the missing prefixes as directories, one create-directory
\* call each, and nothing else; when every prefix is there it issues none and the tree
\* is unchanged.
C3_MkdirAllCreatesMissing ==
    [][(last'.op = "MkdirAll" /\ ~last'.view.issub) =>
          LET pre == Prefixes(Canon(last'.name))
              missing == pre \ DOMAIN tree
              made == CallsOf(last'.calls, "mkdir")
          IN  (\A p \in pre : p \in DOMAIN tree => tree[p].type = "dir") =>
                 /\ last'.err = NoErr
                 /\ DOMAIN tree' = DOMAIN tree \cup missing
                 /\ \A c \in DOMAIN tree : tree'[c] = tree[c]
                 /\ \A p \in missing : tree'[p].type = "dir"
                 /\ Len(made) = Cardinality(missing)
                 /\ Targets(made) = missing]_vars

\* A MkdirAll on the unscoped view that created two directories, parent and child.
C3_Witness ==
    /\ last.op = "MkdirAll" /\ ~last.view.issub /\ last.err = NoErr
    /\ Len(CallsOf(last.calls, "mkdir")) = 2

\* C4: when a prefix of the path given to MkdirAll is a file, MkdirAll returns a
\* "not a directory" error whose path names that prefix, issues no create-directory
\* call for it or below it, and leaves the tree unchanged.
C4_MkdirAllFilePrefix ==
    [][last'.op = "MkdirAll" =>
          LET y == last'.view
              pre == Prefixes(Canon(getFullPath(y, last'.name)))
              isfile == {p \in pre : p \in DOMAIN tree /\ tree[p].type = "file"}
          IN  isfile # {} =>
                 /\ last'.err.kind = "PathError"
                 /\ last'.err.cause = "not a directory"
                 /\ Canon(getFullPath(y, last'.err.path)) \in isfile
                 /\ \A c \in Targets(CallsOf(last'.calls, "mkdir")) :
                        \A p \in isfile : ~IsPrefix(p, c)
                 /\ tree' = tree]_vars

\* C5: Remove of a directory that has a child returns "directory not empty", issues no
\* delete call and leaves the tree as it is.
C5_RemoveNonEmptyDir ==
    [][last'.op = "Remove" =>
          LET k == Canon(getFullPath(last'.view, last'.name))
          IN  (k \in DOMAIN tree /\ tree[k].type = "dir" /\ Children(tree, k) # {}) =>
                 /\ last'.err.kind = "PathError"
                 /\ last'.err.cause = "directory not empty"
                 /\ CallsOf(last'.calls, "delResource") = <<>>
                 /\ tree' = tree]_vars

\* A Remove that was refused on a directory with children, which are still there.
C5_Witness ==
    /\ last.op = "Remove" /\ last.err.cause = "directory not empty"
    /\ Children(tree, Canon(getFullPath(last.view, last.name))) # {}

\* C6: every path a call through a scoped view hands to the remote client is the base
\* path of the view or lies beneath it.
C6_ScopedStaysInScope ==
    last.view.issub =>
        \A c \in Targets(last.calls) : IsPrefix(Canon(last.view.path), c)

\* C7: in a scoped view whose base directory exists, Stat("/") succeeds and reports the
\* name "/", and Stat of an existing node reports its path relative to the base, which
\* given to Stat again names the same node.
C7_ScopedStatName ==
    (last.op = "Stat" /\ last.view.issub /\ Canon(last.view.path) \in DOMAIN tree) =>
        LET y == last.view
            k == Canon(getFullPath(y, last.name))
            b == Canon(y.path)
        IN  (k \in DOMAIN tree /\ IsPrefix(b, k)) =>
               /\ last.err = NoErr
               /\ last.info.name = <<"/">> \o JoinSegs(SubSeq(k, Len(b) + 1, Len(k)))
               /\ Canon(getFullPath(y, last.info.name)) = k

-----------------------------------------------------------------------------
(* Properties of Read *)

\* The handle a Read step works on is a regular file whose node holds content.
ReadsFile(f) ==
    /\ ~files[f].isdir
    /\ Canon(files[f].path) \in DOMAIN tree
    /\ tree[Canon(files[f].path)].type = "file"

\* C1: a payload P written by WriteFile and then read through a handle from Open,
\* with Reads into buffers of any positive length, comes back as P: every Read
\* returns bytes or the end of the stream and no other error, the bytes received
\* so far are always a prefix of P, a Read before the end returns at least one
\* byte, the end of the stream is reported only when all of P has been received,
\* and a Read after all of P was received returns 0 bytes and the end of the stream.
C1_WriteThenReadBack ==
    [][(last'.op = "Read" /\ last'.arg > 0 /\ hist[last'.file].intact /\ ReadsFile(last'.file)) =>
          LET f == last'.file
              P == tree[Canon(files[f].path)].data
          IN  /\ last'.err.kind \in {"nil", "EOF"}
              /\ last'.n = Len(last'.bytes)
              /\ IsPrefix(hist'[f].got, P)
              /\ (hist[f].got # P => last'.n >= 1)
              /\ (last'.err.kind = "EOF" => hist'[f].got = P)
              /\ (hist[f].got = P => last'.n = 0 /\ last'.err.kind = "EOF")]_vars

\* A payload of two bytes or more was read back in full, and the Read after it, into
\* a buffer of one byte, got 0 bytes and the end of the stream.
C1_Witness ==
    /\ last.op = "Read" /\ last.arg = 1 /\ last.n = 0 /\ last.err.kind = "EOF"
    /\ hist[last.file].intact /\ ReadsFile(last.file)
    /\ hist[last.file].got = tree[Canon(files[last.file].path)].data
    /\ Len(hist[last.file].got) >= 2

\* The bytes that were left in the body before the Read step that has just been taken.
RemainingBefore(f) == Len(files'[f].data.bytes) - (files'[f].roffset - last'.n)

\* C10: a Read that copies bytes reports the end of the stream in the same call
\* exactly when its buffer is longer than what was left of the body; a Read whose
\* buffer has exactly the length of what was left returns the bytes with no error.
C10_ReadEOFOnlyWhenBufferLonger ==
    [][(last'.op = "Read" /\ ~files[last'.file].isdir /\ last'.n > 0) =>
          /\ last'.n = IF last'.arg > RemainingBefore(last'.file)
                       THEN RemainingBefore(last'.file) ELSE last'.arg
          /\ (last'.err.kind = "EOF") = (last'.arg > RemainingBefore(last'.file))
          /\ (last'.err.kind = "nil") = (last'.arg <= RemainingBefore(last'.file))]_vars

\* A Read whose buffer was exactly as long as the rest of the body reached the end
\* of the body and returned no error.
C10_Witness ==
    /\ last.op = "Read" /\ last.n > 0 /\ last.n = last.arg
    /\ files[last.file].roffset = Len(files[last.file].data.bytes)
    /\ last.err.kind = "nil"

\* C10 as stated: every Read that copies bytes and reaches the end of the body
\* reports the end of the stream in the same call.
C10_ReadReachingEndReportsEOF ==
    [][(last'.op = "Read" /\ ~files[last'.file].isdir /\ last'.n > 0
        /\ files'[last'.file].roffset = Len(files'[last'.file].data.bytes)) =>
          last'.err.kind = "EOF"]_vars

-----------------------------------------------------------------------------
(* Properties of ReadDir *)

\* The handle a ReadDir step works on is a directory that is still there, open and
\* unchanged since Open.
ReadsDir(f) ==
    /\ files[f].isdir /\ hist[f].intact
    /\ Canon(files[f].path) \in DOMAIN tree
    /\ tree[Canon(files[f].path)].type = "dir"

\* The children that were left for the handle before the ReadDir step.
RemainingDir(f) == Cardinality(Children(tree, Canon(files[f].path))) - files[f].rdoffset

\* C8: on a directory handle whose directory is unchanged, ReadDir(n) with
\* 0 < n < remaining returns exactly n entries, advances the cursor by n and
\* reports no end of the stream; a ReadDir(n) with n > 0 reports the end of the
\* stream only when fewer than n entries remained.
C8_ReadDirReturnsExactlyN ==
    [][(last'.op = "ReadDir" /\ last'.arg > 0 /\ ReadsDir(last'.file)) =>
          /\ (last'.arg < RemainingDir(last'.file) =>
                 /\ Len(last'.entries) = last'.arg
                 /\ files'[last'.file].rdoffset = files[last'.file].rdoffset + last'.arg
                 /\ last'.err.kind = "nil")
          /\ (last'.err.kind = "EOF" => RemainingDir(last'.file) < last'.arg)]_vars

\* C9: on a directory handle, ReadDir(n) with n <= 0 returns exactly the entries
\* from the cursor to the end of the listing, reports no error and leaves the
\* cursor at 0.
C9_ReadDirAllResetsCursor ==
    [][(last'.op = "ReadDir" /\ last'.arg <= 0 /\ ReadsDir(last'.file)
        /\ RemainingDir(last'.file) >= 0) =>
          /\ Len(last'.entries) = RemainingDir(last'.file)
          /\ last'.err.kind = "nil"
          /\ files'[last'.file].rdoffset = 0]_vars

-----------------------------------------------------------------------------
(* More properties of Read *)

\* C11: the first Read of a handle that has not read yet (body not fetched), into
\* a buffer of exactly the length L > 0 of the file's body, returns L bytes, the
\* body itself, with no error; the Read that follows it on the same handle, into a
\* non-empty buffer, returns 0 bytes and the end of the stream.
C11_ExactFitThenEOF ==
    [][(last'.op = "Read" /\ last'.arg > 0 /\ ReadsFile(last'.file)) =>
          LET f == last'.file
              body == tree[Canon(files[f].path)].data
          IN  /\ (files[f].data.nil /\ last'.arg = Len(body)) =>
                    /\ last'.n = Len(body)
                    /\ last'.bytes = body
                    /\ last'.err.kind = "nil"
              /\ (last.op = "Read" /\ last.file = f /\ last.calls # <<>>
                  /\ last.n > 0 /\ last.n = last.arg /\ last.n = Len(files[f].data.bytes)
                  /\ last.err.kind = "nil") =>
                    /\ last'.n = 0
                    /\ last'.err.kind = "EOF"]_vars

\* The first Read of a handle took a body of two bytes or more into a buffer of
\* exactly that length and got no error.
C11_Witness ==
    /\ last.op = "Read" /\ last.calls # <<>> /\ last.n >= 2 /\ last.n = last.arg
    /\ ReadsFile(last.file)
    /\ last.bytes = tree[Canon(files[last.file].path)].data
    /\ last.err.kind = "nil"

\* C12: Read on a handle of a directory returns 0 bytes and an "is a directory"
\* error, asks the remote for nothing and leaves the handle (body, read offset,
\* directory offset) as it was.
C12_ReadOnDirectory ==
    [][(last'.op = "Read" /\ files[last'.file].isdir) =>
          /\ last'.n = 0 /\ last'.bytes = <<>>
          /\ last'.err.kind = "PathError" /\ last'.err.op = "read"
          /\ last'.err.cause = "is a directory"
          /\ last'.calls = <<>>
          /\ files'[last'.file] = files[last'.file]]_vars

\* A Read into a non-empty buffer was made on the handle of a directory that has
\* children and whose directory cursor had moved.
C12_Witness ==
    /\ last.op = "Read" /\ last.arg > 0
    /\ files[last.file].isdir /\ files[last.file].rdoffset > 0
    /\ last.err.cause = "is a directory"

\* C13: after Close on the handle of a file, whatever had been read through it,
\* every Read returns 0 bytes and the end of the stream and asks the remote for
\* nothing.
C13_ReadAfterClose ==
    [][(last'.op = "Read" /\ hist[last'.file].closed /\ ~files[last'.file].isdir) =>
          /\ last'.n = 0 /\ last'.bytes = <<>>
          /\ last'.err.kind = "EOF"
          /\ last'.calls = <<>>]_vars

\* A Read into a non-empty buffer was made on a closed handle whose file holds bytes.
C13_Witness ==
    /\ last.op = "Read" /\ last.arg > 0
    /\ hist[last.file].closed /\ ReadsFile(last.file)
    /\ tree[Canon(files[last.file].path)].data # <<>>
    /\ last.err.kind = "EOF"

-----------------------------------------------------------------------------
(* Properties of the calls on paths that are not there *)

\* The node a call through a view is about: the canonical form of the resolved name.
Target(y, name) == Canon(getFullPath(y, name))

\* C14: Stat and Open of a path that is not on the remote return an error that
\* matches NotFound together with a result that is equal to nil.
C14_AbsentGivesNilResult ==
    (last.op \in {"Stat", "Open"} /\ Target(last.view, last.name) \notin DOMAIN tree) =>
        /\ last.err.kind = "PathError" /\ last.err.cause = "ErrNotFound"
        /\ EqualsNil(last.ret)

\* C15: RemoveAll of a path that is not there returns nil, asks for no delete and
\* leaves the tree as it was; Open, Stat, Remove, Sub, ReadDir and ReadFile of a
\* path that is not there return an error that matches NotFound.
C15_AbsentPath ==
    [][(Target(last'.view, last'.name) \notin DOMAIN tree) =>
          /\ (last'.op = "RemoveAll" =>
                 /\ last'.err.kind = "nil"
                 /\ CallsOf(last'.calls, "delResource") = <<>>
                 /\ tree' = tree)
          /\ (last'.op \in {"Open", "Stat", "Remove", "Sub", "ReadDirFS", "ReadFile"} =>
                 /\ last'.err.kind = "PathError"
                 /\ last'.err.cause = "ErrNotFound"
                 /\ tree' = tree)]_vars

\* RemoveAll was called through a scoped view on a path that was not there: one
\* fetch, no delete, no error.
C15_Witness ==
    /\ last.op = "RemoveAll" /\ last.view.issub
    /\ Target(last.view, last.name) \notin DOMAIN tree
    /\ Len(last.calls) = 1
    /\ last.err.kind = "nil"

\* C16: RemoveAll removes everything it can: when the removal of one child of the
\* target fails, every other child subtree that can be removed is removed all the
\* same, and an error is returned.
C16_RemovesEverythingItCan ==
    [][(last'.op = "RemoveAll" /\ Target(last'.view, last'.name) \in DOMAIN tree) =>
          LET k == Target(last'.view, last'.name)
              stuck == {c \in Children(tree, k) : \E d \in Subtree(tree, c) : tree[d].busy}
          IN  (stuck # {}) =>
                 /\ last'.err.kind = "PathError"
                 /\ \A c \in Children(tree, k) \ stuck : c \notin DOMAIN tree']_vars

\* C17: ReadDir(name) of a view returns one entry for every child of the directory,
\* sorted by filename, in whatever order the remote lists the children.
C17_ReadDirSortedByName ==
    (last.op = "ReadDirFS" /\ last.err.kind = "nil") =>
        LET kids == Children(tree, Target(last.view, last.name))
        IN  /\ Len(last.entries) = Cardinality(kids)
            /\ {Canon(last.entries[i].name) : i \in 1..Len(last.entries)} = kids
            /\ \A i \in 1..Len(last.entries) - 1 :
                   StrLess(last.entries[i].name, last.entries[i + 1].name)

\* C18: Remove(name) of an existing file or empty directory asks for the permanent
\* delete of exactly the absolute path it fetched and checked: in a scoped view with
\* base B the node at B/name goes and every other node, a node of the same name at
\* the root included, stays as it was.
C18_RemoveDeletesResolvedPath ==
    [][last'.op = "Remove" =>
          LET k == Target(last'.view, last'.name)
              dels == CallsOf(last'.calls, "delResource")
          IN  (k \in DOMAIN tree /\ k # Root /\ Children(tree, k) = {}) =>
                 /\ Len(dels) = 1
                 /\ Targets(dels) = {k}
                 /\ last'.err = NoErr
                 /\ tree' = Without(tree, k)]_vars

\* C19: after a successful MkdirAll(p) through a scoped view with base B there is a
\* directory at B/p, and every Stat and create-directory request of the call went to
\* B or to a path beneath B that is a prefix of B/p.
C19_ScopedMkdirAll ==
    (last.op = "MkdirAll" /\ last.view.issub /\ last.err = NoErr) =>
        LET b == Canon(last.view.path)
            k == Target(last.view, last.name)
        IN  IsPrefix(b, k) =>
               /\ k \in DOMAIN tree
               /\ tree[k].type = "dir"
               /\ \A c \in Targets(last.calls) : IsPrefix(b, c) /\ IsPrefix(c, k)

\* C20: RemoveAll(p) through a scoped view with base B, of an existing node at B/p,
\* fetches every node of the subtree at its own absolute path, removes B/p with all
\* its descendants and removes nothing else.
C20_ScopedRemoveAll ==
    [][(last'.op = "RemoveAll" /\ last'.view.issub) =>
          LET b == Canon(last'.view.path)
              k == Target(last'.view, last'.name)
          IN  (k \in DOMAIN tree /\ k # Root /\ IsPrefix(b, k)) =>
                 /\ Subtree(tree, k) \subseteq
                        Targets(CallsOf(last'.calls, "getResourceWithEmbedded"))
                 /\ tree' = Without(tree, k)]_vars

\* C21: every error that Open, Stat, Sub, ReadFile, ReadDir, WriteFile, Mkdir and
\* Remove return is a path error whose path is the name the caller gave to the call
\* and whose cause is the error of the remote (or the refusal the call itself made).
C21_ErrorsNameCallersPath ==
    (/\ last.op \in {"Open", "Stat", "Sub", "ReadFile", "ReadDirFS", "WriteFile", "Mkdir",
                     "Remove"}
     /\ last.err.kind # "nil") =>
        /\ last.err.kind = "PathError"
        /\ last.err.path = last.name
        /\ last.err.cause \in {"ErrNotFound", "ErrAPI", "not a directory",
                               "directory not empty"}

\* A relative path that climbs above the directory it starts from.
Escapes(p) ==
    LET c == CleanSegs(Split(p), FALSE, <<>>)
    IN  c # <<>> /\ c[1] = DotDot

\* C22: in a scoped view, resolving a relative path that stays within the scope and
\* unresolving the result gives the normalised path, "/" for the base itself and
\* never the empty string; in an unscoped view both functions return their input.
C22_UnresolveInvertsResolve ==
    last.op = "Resolve" =>
        IF last.view.issub
        THEN ~Escapes(last.name) =>
                /\ last.err = NoErr
                /\ last.rel = Clean(<<"/">> \o last.name)
                /\ last.rel # <<>>
        ELSE last.err = NoErr /\ last.full = last.name /\ last.rel = last.name

\* C23: Mkdir(name) creates the one directory at the resolved path and nothing else,
\* and Stat(name) then reports a directory; when a node is already at that path or
\* the parent is missing it returns an error and leaves the tree as it was.
C23_MkdirOneLevel ==
    [][last'.op = "Mkdir" =>
          LET k == Target(last'.view, last'.name)
          IN  /\ (k \notin DOMAIN tree /\ Parent(k) \in DOMAIN tree
                  /\ tree[Parent(k)].type = "dir") =>
                     /\ last'.err = NoErr
                     /\ DOMAIN tree' = DOMAIN tree \cup {k}
                     /\ \A c \in DOMAIN tree : tree'[c] = tree[c]
                     /\ tree'[k].type = "dir"
                     /\ Stat(tree', listDesc, last'.view, last'.name).err = NoErr
                     /\ Stat(tree', listDesc, last'.view, last'.name).info.isdir
              /\ (k \in DOMAIN tree \/ Parent(k) \notin DOMAIN tree) =>
                     /\ last'.err.kind = "PathError"
                     /\ tree' = tree]_vars

\* Mkdir through a scoped view made a directory beneath the base.
C23_Witness ==
    /\ last.op = "Mkdir" /\ last.view.issub /\ last.err = NoErr
    /\ Len(Target(last.view, last.name)) = 2
    /\ Target(last.view, last.name) \in DOMAIN tree
    /\ tree[Target(last.view, last.name)].type = "dir"

\* The children of k in the order of the listing.
Listed(t, desc, k) == Listing(Children(t, k), desc)

\* A child whose removal fails: the remote holds a node of its subtree locked.
Stuck(t, c) == \E d \in Subtree(t, c) : t[d].busy

ChildDeletes(calls, t, d, n) ==
    {m \in 1..(n - 1) : calls[m].fn = "delResource" /\ Canon(calls[m].path) \in Children(t, d)}

\* C25: in every RemoveAll the delete request for a directory comes after the
\* directory was fetched and after each child of its listing was removed, one child
\* at a time in the order of the listing: no directory is asked to be deleted while
\* one of its children is still there.
C25_RemoveAllChildrenFirst ==
    [][last'.op = "RemoveAll" =>
          LET calls == last'.calls
          IN  \A n \in 1..Len(calls) : calls[n].fn = "delResource" =>
                 LET d == Canon(calls[n].path)
                     L == Listed(tree, listDesc, d)
                 IN  /\ \E m \in 1..(n - 1) :
                           /\ calls[m].fn = "getResourceWithEmbedded"
                           /\ Canon(calls[m].path) = d
                     /\ \A i \in 1..Len(L) : \E m \in ChildDeletes(calls, tree, d, n) :
                           Canon(calls[m].path) = L[i]
                     /\ \A i, j \in 1..Len(L) : \A m, q \in ChildDeletes(calls, tree, d, n) :
                           (i < j /\ Canon(calls[m].path) = L[i]
                            /\ Canon(calls[q].path) = L[j]) => m < q]_vars

\* C26: MkdirAll, whether it returns an error or not, leaves every node that was
\* there before the call in place and as it was; what it adds are directories, and
\* the only requests that change the remote are create-directory requests.
C26_MkdirAllOnlyAdds ==
    [][last'.op = "MkdirAll" =>
          /\ \A c \in DOMAIN tree : c \in DOMAIN tree' /\ tree'[c] = tree[c]
          /\ \A c \in DOMAIN tree' \ DOMAIN tree : tree'[c].type = "dir"
          /\ \A n \in 1..Len(last'.calls) : last'.calls[n].fn \in {"getResource", "mkdir"}
          /\ DOMAIN tree' \ DOMAIN tree \subseteq Targets(CallsOf(last'.calls, "mkdir"))]_vars

\* MkdirAll made a directory on a disk that holds a file.
C26_Witness ==
    /\ last.op = "MkdirAll"
    /\ CallsOf(last.calls, "mkdir") # <<>>
    /\ \E c \in DOMAIN tree : tree[c].type = "file" /\ tree[c].data = <<1>>

RoffsetInRange ==
    \A f \in DOMAIN files :
        0 <= files[f].roffset /\ files[f].roffset <= Len(files[f].data.bytes)

\* C28: a Read on a file handle that returns without a path error copies
\* min(len(buffer), len(body) - readOffset) bytes, the bytes of the body from the
\* read offset on, returns their number and moves the read offset on by as much; the
\* read offset stays between 0 and the length of the body in every state, whatever
\* Read, Stat and Close calls were made.
C28_ReadCopiesFromOffset ==
    /\ []RoffsetInRange
    /\ [][(last'.op = "Read" /\ ~files[last'.file].isdir
           /\ last'.err.kind \in {"nil", "EOF"}) =>
             LET f == last'.file
                 off == IF files[f].data.nil THEN 0 ELSE files[f].roffset
                 body == files'[f].data.bytes
                 left == Len(body) - off
                 count == IF last'.arg < left THEN last'.arg ELSE left
             IN  /\ last'.n = count
                 /\ last'.bytes = SubSeq(body, off + 1, off + count)
                 /\ files'[f].roffset = off + count]_vars

\* A Read served from the body already held, starting past its first byte.
C28_Witness ==
    /\ last.op = "Read" /\ ~files[last.file].isdir /\ last.calls = <<>>
    /\ last.n >= 1
    /\ files[last.file].roffset > last.n

\* C29: Open fetches the metadata and no bytes.  Between Open and Close of a file
\* handle the fetch of the bytes succeeds at most once, on the first Read: a handle
\* that holds the body keeps it, every later Read is served from it with no request
\* to the remote, and what it delivers is the body that was fetched, whatever was
\* written to the remote since.
C29_BodyFetchedOnce ==
    [][/\ last'.op = "Open" =>
             /\ CallsOf(last'.calls, "getFile") = <<>>
             /\ (last'.err.kind = "nil" => files'[Len(files')].data.nil)
       /\ \A f \in DOMAIN files :
             (~files[f].data.nil /\ ~(last'.op = "Close" /\ last'.file = f)) =>
                 files'[f].data = files[f].data
       /\ (last'.op = "Read" /\ ~files[last'.file].isdir) =>
             LET f == last'.file
             IN  /\ last'.calls # <<>> => files[f].data.nil
                 /\ (~files[f].data.nil /\ ~hist[f].closed) =>
                       /\ last'.calls = <<>>
                       /\ last'.bytes = SubSeq(files[f].data.bytes, files[f].roffset + 1,
                                               files[f].roffset + last'.n)]_vars

\* A Read was served from the body the handle holds after the file was overwritten
\* on the remote with other bytes.
C29_Witness ==
    /\ last.op = "Read" /\ ReadsFile(last.file) /\ ~hist[last.file].closed
    /\ last.calls = <<>> /\ last.n >= 1
    /\ tree[Canon(files[last.file].path)].data # files[last.file].data.bytes

\* C30: on a directory handle every ReadDir(n), for any n and with children added
\* or removed on the remote between the calls, returns a batch or an error and never
\* fails with a negative batch size or an index out of range, and the cursor is
\* between 0 and the number of children the call has just fetched.
C30_ReadDirNeverCrashes ==
    (last.op = "ReadDir" /\ files[last.file].isdir) =>
        /\ last.err.kind \in {"nil", "EOF", "PathError"}
        /\ last.err.kind \in {"nil", "EOF"} =>
              /\ 0 <= files[last.file].rdoffset
              /\ files[last.file].rdoffset <=
                     Cardinality(Children(tree, Canon(files[last.file].path)))

-----------------------------------------------------------------------------
(* More properties of ReadDir *)

\* C31: every entry of a batch that ReadDir returns on a directory handle describes
\* a child of the directory: the i-th entry has the name, the size and the directory
\* flag of the child at the place (cursor before the call) + i of the listing, and
\* no entry describes the directory that was opened.
C31_EntriesDescribeChildren ==
    [][(last'.op = "ReadDir" /\ files[last'.file].isdir
        /\ last'.err.kind \in {"nil", "EOF"}) =>
          LET f == last'.file
              L == Listed(tree, listDesc, Canon(files[f].path))
              off == files[f].rdoffset
          IN  \A i \in 1..Len(last'.entries) :
                 /\ off + i <= Len(L)
                 /\ last'.entries[i].name = L[off + i][Len(L[off + i])]
                 /\ last'.entries[i].isdir = (tree[L[off + i]].type = "dir")
                 /\ last'.entries[i].size = Len(tree[L[off + i]].data)]_vars

\* C32: on a directory handle whose cursor stands at the number of children,
\* ReadDir(n) with n > 0 returns an empty batch with the end of the stream and leaves
\* the cursor where it was; ReadDir(n) with n equal to the number of children that
\* remain returns that many entries and no end of the stream.
C32_ReadDirAtTheEnd ==
    [][(last'.op = "ReadDir" /\ last'.arg > 0 /\ files[last'.file].isdir
        /\ Canon(files[last'.file].path) \in DOMAIN tree) =>
          LET f == last'.file
          IN  /\ RemainingDir(f) = 0 =>
                    /\ last'.entries = <<>>
                    /\ last'.err.kind = "EOF"
                    /\ files'[f].rdoffset = files[f].rdoffset
              /\ RemainingDir(f) = last'.arg =>
                    /\ Len(last'.entries) = last'.arg
                    /\ last'.err.kind = "nil"
                    /\ files'[f].rdoffset = files[f].rdoffset + last'.arg]_vars

\* A ReadDir asked for more on a directory with children whose cursor was at the end.
C32_Witness ==
    /\ last.op = "ReadDir" /\ last.arg > 0 /\ files[last.file].isdir
    /\ last.entries = <<>> /\ last.err.kind = "EOF"
    /\ files[last.file].rdoffset >= 2
    /\ files[last.file].rdoffset = Cardinality(Children(tree, Canon(files[last.file].path)))

\* C33: ReadDir on a handle of a file returns an empty batch with a "not a
\* directory" error, sends no request and leaves the handle (directory cursor, read
\* offset, body held) as it was; ReadDir(name) of a view on a path that is a file
\* returns an empty list with a "not a directory" error.
C33_ReadDirOnFile ==
    [][/\ (last'.op = "ReadDir" /\ ~files[last'.file].isdir) =>
             /\ last'.entries = <<>>
             /\ last'.err.kind = "PathError" /\ last'.err.cause = "not a directory"
             /\ last'.calls = <<>>
             /\ files'[last'.file] = files[last'.file]
       /\ (last'.op = "ReadDirFS" /\ Target(last'.view, last'.name) \in DOMAIN tree
           /\ tree[Target(last'.view, last'.name)].type = "file") =>
             /\ last'.entries = <<>>
             /\ last'.err.kind = "PathError" /\ last'.err.cause = "not a directory"]_vars

\* ReadDir was called on a file handle that holds the body and has read from it.
C33_Witness ==
    /\ last.op = "ReadDir" /\ ~files[last.file].isdir
    /\ last.err.cause = "not a directory"
    /\ files[last.file].roffset >= 1
    /\ Len(files[last.file].data.bytes) >= 2

-----------------------------------------------------------------------------
(* Properties of handles *)

\* C34: handles from separate Open calls share nothing, even on the same path: a
\* Read, ReadDir or Close on one handle leaves the body held, the read offset and the
\* directory cursor of every other handle as they were.
C34_HandlesAreIndependent ==
    [][last'.op \in {"Read", "ReadDir", "Close"} =>
          /\ DOMAIN files' = DOMAIN files
          /\ \A g \in DOMAIN files \ {last'.file} : files'[g] = files[g]]_vars

\* One handle has read from the body while another handle of the same path, opened
\* before it, has fetched nothing yet.
C34_Witness ==
    /\ last.op = "Read" /\ last.n = 1 /\ Len(files) >= 2
    /\ \E g \in DOMAIN files :
          /\ g < last.file
          /\ files[g].path = files[last.file].path
          /\ files[g].data.nil
          /\ files[last.file].roffset >= 1

\* C35: Close resets the cursors of the handle: after Close the read offset is 0, the
\* directory cursor is 0 and the handle holds no bytes, whatever Read and ReadDir
\* calls came before, so that a ReadDir after Close starts at the first child again.
C35_CloseResetsCursors ==
    last.op = "Close" =>
        /\ files[last.file].roffset = 0
        /\ files[last.file].rdoffset = 0
        /\ files[last.file].data.bytes = <<>>

-----------------------------------------------------------------------------
(* Properties of Sub *)

\* The absolute path of a node, as normalizeResource leaves the remote's path.
AbsPath(k) == <<"/">> \o JoinSegs(k)

\* C36: Sub makes a new scoped view exactly when the resolved target is a directory
\* that is there, and the base path of that view is the target's absolute path
\* without the root token; for a target that is a file it returns a "not a directory"
\* error and for a target that is not there an error that matches NotFound, and makes
\* no view.  Sub leaves the view it was called on as it was, and no call changes or
\* drops a view that exists.
C36_SubMakesScopedView ==
    [][/\ views \subseteq views'
       /\ last'.op = "Sub" =>
             LET k == Target(last'.view, last'.name)
             IN  /\ last'.view \in views'
                 /\ (k \in DOMAIN tree /\ tree[k].type = "dir") =>
                        /\ last'.err.kind = "nil"
                        /\ views' = views \cup {[path |-> AbsPath(k), issub |-> TRUE]}
                 /\ (k \in DOMAIN tree /\ tree[k].type = "file") =>
                        /\ last'.err.kind = "PathError"
                        /\ last'.err.cause = "not a directory"
                        /\ views' = views
                 /\ (k \notin DOMAIN tree) =>
                        /\ last'.err.kind = "PathError"
                        /\ last'.err.cause = "ErrNotFound"
                        /\ views' = views]_vars

\* Sub through the scoped view of /a has made the view of /a/b.
C36_Witness ==
    /\ last.op = "Sub" /\ last.err.kind = "nil"
    /\ last.view = [path |-> <<"/", "a">>, issub |-> TRUE]
    /\ [path |-> <<"/", "a", "/", "b">>, issub |-> TRUE] \in views
    /\ NewFS \in views

-----------------------------------------------------------------------------
(* Properties of stale views *)

\* A scoped view whose base directory is no longer on the remote.
Stale(t, y) == y.issub /\ Canon(y.path) \notin DOMAIN t

-----------------------------------------------------------------------------
(* Properties of Remove among concurrent calls *)

\* C38: Remove never destroys a child, whatever other calls the remote serves while
\* it runs: when its target has a child by the time of its delete request, one added
\* after the fetch included, the delete is not applied and the tree stays as it is.
C38_RemoveSparesChildren ==
    [][\A i \in DOMAIN removing :
          (last'.op = "Remove" /\ last'.arg = i /\ Len(removing') < Len(removing)) =>
              LET k == Canon(removing[i].name)
              IN  /\ \A c \in DOMAIN tree : c # k => c \in DOMAIN tree'
                  /\ (k \in DOMAIN tree /\ Children(tree, k) # {}) => tree' = tree]_vars

====
